---- MODULE Spec2Model ----
(***************************************************************************)
(* The analysis core of the chess application (src/src/App.jsx, component  *)
(* App): the engine worker and its two message handlers, the live-analysis *)
(* trigger, the batch-analysis queue and its processor, the play-vs-AI     *)
(* search, and the MoveRecords (moveAnalyses) they fill; and the puzzle    *)
(* session (loadPuzzle, handlePuzzleMove and its scripted-reply timer).    *)
(*                                                                         *)
(* One step of the model is one browser task: a user event, a timer or a   *)
(* worker message.  The handler runs, React applies the batched state      *)
(* updates, the component renders and the effects whose dependencies       *)
(* changed run in source order (Commit).  A handler registered by an effect*)
(* keeps the values of the render that registered it: the worker listener  *)
(* (listener) and the board's onDrop (registered once, at mount).          *)
(*                                                                         *)
(* An optional value (null / undefined in the source) is the empty tuple   *)
(* None, a present one is the one-element tuple Some(x).                   *)
(***************************************************************************)
EXTENDS Integers, Sequences, FiniteSets, TLC

VARIABLES
    game,               \* gameRef.current: the chess.js game (position and its own move list)
    fen,                \* state fen: the position shown and analysed
    history,            \* state history: the moves of the game
    currentMoveIndex,   \* state currentMoveIndex (-1 = start)
    evaluation,         \* state evaluation: None or Some([cp, mate])
    isEngineReady,      \* state isEngineReady
    moveAnalyses,       \* state moveAnalyses: index -> MoveRecord
    analysisQueue,      \* state analysisQueue: the batch tasks not yet finished
    isAnalyzing,        \* state isAnalyzing: a batch is running
    analyzingIndexRef,  \* analyzingIndexRef.current: None or Some(task index)
    playMode,           \* state playMode
    userColor,          \* state userColor ("w" / "b"); aiColor is the other one
    orientation,        \* state orientation ("white" / "black")
    puzzleState,        \* state puzzleState: currentPuzzle, index, status, moveIndex, userRating
    replyTimers,        \* the pending 500 ms timers of handlePuzzleMove, oldest first
    depths,             \* the depths of the last two info lines of an engine report
    listener,           \* the values the engine.onmessage wrapper closed over
    playTimer,          \* the 500 ms timer of the play-mode effect is pending
    worker,             \* the engine worker: "running", or "terminated" by the unmount
    searches,           \* engine side: the searches started by go and not yet answered
    sent,               \* the commands posted to the worker during the last step
    events              \* the number of user events handled so far

vars == <<game, fen, history, currentMoveIndex, evaluation, isEngineReady,
          moveAnalyses, analysisQueue, isAnalyzing, analyzingIndexRef,
          playMode, userColor, orientation, puzzleState, replyTimers, depths,
          listener, playTimer, worker, searches, sent, events>>

-----------------------------------------------------------------------------
(* Bounds of the model *)

\* the modelled games end (no legal move left) after MaxPlies plies
MaxPlies == 2

\* the engine holds at most MaxSearches unanswered searches
MaxSearches == 2

\* the user does at most MaxUserEvents things (drops, clicks, loads)
MaxUserEvents == 3

\* the puzzle list holds NumPuzzles puzzles
NumPuzzles == 2

\* in a puzzle session the user does at most MaxPuzzleEvents things
MaxPuzzleEvents == 6

-----------------------------------------------------------------------------
(* Values *)

None == << >>

Some(x) == <<x>>

\* A position: the position the game started from and the plies played since.
\* "std" is the standard initial position, "fen" a loaded position with Black
\* to move.  FEN strings are opaque to the application.
Bases == {"std", "fen"}

\* the start positions of the puzzles, by index in the puzzle list
PuzzleBases == <<"puzzle0", "puzzle1", "puzzle2", "puzzle3">>

\* the side to move in a start position: White in the standard one and in the
\* puzzles of even index, Black in the loaded one and in the other puzzles
WhiteStarts == {"std", "puzzle0", "puzzle2"}

Pos(b, k) == [base |-> b, n |-> k]

StartPos == Pos("std", 0)

FenPos == Pos("fen", 0)

\* game.turn(): the side to move
Turn(p) == IF (p.n + (IF p.base \in WhiteStarts THEN 0 ELSE 1)) % 2 = 0 THEN "w" ELSE "b"

\* game.isGameOver(): the standard game ends after MaxPlies plies, the loaded
\* position one ply earlier
IsGameOver(p) == p.n >= (IF p.base = "std" THEN MaxPlies ELSE MaxPlies - 1)

\* game.history({verbose: true}): a move is named by the position it was played in
HistoryOf(p) == [i \in 1..p.n |-> Pos(p.base, i - 1)]

\* const aiColor = userColor === 'w' ? 'b' : 'w'
AiColor(uc) == IF uc = "w" THEN "b" ELSE "w"

\* The score field of an engine info line: score cp v (kind "cp"), score mate n
\* (kind "mate") or none.  The engine of this model reports centipawn scores
\* and lines without a score.
CpValues == {60}

InfoLines == [kind : {"cp"}, value : CpValues] \cup [kind : {"none"}, value : {0}]

\* The info lines of an engine report: the depth of the line, and a centipawn
\* score, a mate score or none
MateValues == {2}

Depths == {1, 2}

ReportLines == [kind : {"cp"}, value : CpValues, depth : Depths]
               \cup [kind : {"mate"}, value : MateValues, depth : Depths]
               \cup [kind : {"none"}, value : {0}, depth : Depths]

\* Outbound commands; by names the code that posts the command: the engine
\* initialisation ("init"), the analysis trigger ("live"), the play-mode
\* effect ("play") or the batch processor ("batch")
Cmd(c, p, b) == [cmd |-> c, fen |-> p, by |-> b]

\* a trigger that stops the engine after it has started the new search
LiveCommandsStopLast(p) == <<Cmd("position fen", Some(p), "live"),
                             Cmd("go depth 15", None, "live"), Cmd("stop", None, "live")>>

LiveCommands(p) == <<Cmd("stop", None, "live"), Cmd("position fen", Some(p), "live"),
                     Cmd("go depth 15", None, "live")>>

PlayCommands(p) == <<Cmd("position fen", Some(p), "play"), Cmd("go depth 10", None, "play")>>

BatchCommands(p) == <<Cmd("position fen", Some(p), "batch"), Cmd("go depth 10", None, "batch")>>

InitCommands == <<Cmd("uci", None, "init"), Cmd("setoption name Hash value 64", None, "init")>>

\* A search the engine was asked for: who asked, for which position, for which batch task
Search(s, p, t) == [src |-> s, pos |-> p, task |-> t]

-----------------------------------------------------------------------------
(* Puzzles *)

\* puzzleState.userRating of a new session, and the change on solved / failed
InitialRating == 1200

RatingBonus == 10

RatingPenalty == 10

\* A solution token (4 or 5 characters in the source) is named by its puzzle and
\* its place in the solution; two tokens of a puzzle have different coordinates.
Token(i, k) == [pz |-> i, k |-> k]

\* puzzles[i]: the puzzle of index i has i + 2 solution tokens
Puzzle(i) == [FEN   |-> Pos(PuzzleBases[i + 1], 0),
              Moves |-> [k \in 1..(i + 2) |-> Token(i, k - 1)]]

\* a coordinate pair that is the move of no solution token
OtherPair == Token(-1, -1)

\* source + target of a drop: the coordinates of a token of the current puzzle,
\* or another pair
Submissions(pz) == {pz.Moves[k] : k \in 1..Len(pz.Moves)} \cup {OtherPair}

\* game.move(token) in position p: the token is legal in the position its
\* solution expects
Expected(t, p) == t.pz >= 0 /\ p = Pos(PuzzleBases[t.pz + 1], t.k)

\* The fifth character of a token, the promotion piece, if it has one: the
\* first move of puzzle 1 promotes to a knight, the reply to it to a rook;
\* the other tokens have four characters.
PromotionLetter(t) ==
    IF t.pz = 1 /\ t.k = 0 THEN Some("n")
    ELSE IF t.pz = 1 /\ t.k = 1 THEN Some("r")
    ELSE None

\* the move object handlePuzzleMove passes to makeMove for the user's drop
UserMoveObject(pair) == [coords |-> pair, promotion |-> "q"]

\* the move object the timer callback passes to makeMove for the reply
ReplyMoveObject(t) ==
    [coords |-> t,
     promotion |-> IF PromotionLetter(t) # None THEN PromotionLetter(t)[1] ELSE "q"]

\* game.move(move): the move made on the board; the promotion field is used
\* when the move is a promotion (the moves whose token names a piece) and
\* ignored otherwise
Applied(move) ==
    [coords |-> move.coords,
     piece  |-> IF PromotionLetter(move.coords) # None THEN Some(move.promotion) ELSE None]

-----------------------------------------------------------------------------
(* Parsing of an info line *)

\* a parser that knows centipawn scores only
LiveParseCpOnly(line) ==
    IF line.kind = "cp" THEN Some([cp |-> Some(line.value), mate |-> None])
    ELSE None

\* worker.onmessage: /score cp (-?\d+)/ and /score mate (-?\d+)/; None when neither matches
LiveParse(line) ==
    IF line.kind = "cp" THEN Some([cp |-> Some(line.value), mate |-> None])
    ELSE IF line.kind = "mate" THEN Some([cp |-> None, mate |-> Some(line.value)])
    ELSE None

\* engine.onmessage wrapper: score = 0, mate = null, then includes('mate') / includes('cp')
BatchParse(line) ==
    [cp   |-> IF line.kind = "mate" THEN Some(0)
              ELSE IF line.kind = "cp" THEN Some(line.value) ELSE Some(0),
     mate |-> IF line.kind = "mate" THEN Some(line.value) ELSE None]

-----------------------------------------------------------------------------
(* MoveRecords *)

EmptyRecord == [pre |-> None, post |-> None, loss |-> None, classification |-> "unset"]

\* prev[idx] || {}
Get(ma, i) == IF i \in DOMAIN ma THEN ma[i] ELSE EmptyRecord

\* { ...prev, [idx]: r }
Put(ma, i, r) == [j \in (DOMAIN ma) \cup {i} |-> IF j = i THEN r ELSE ma[j]]

NoAnalyses == [j \in {} |-> EmptyRecord]

\* live classification of a loss
ClassifyLive(loss) ==
    IF loss <= 50 THEN "good"
    ELSE IF loss <= 150 THEN "inaccuracy"
    ELSE IF loss <= 300 THEN "mistake"
    ELSE "blunder"

\* batch classification of a loss
ClassifyBatch(loss) ==
    IF loss > 300 THEN "blunder"
    ELSE IF loss > 100 THEN "mistake"
    ELSE IF loss > 50 THEN "inaccuracy"
    ELSE "good"

\* an updater that classifies a move whose pre-evaluation is missing as good
LiveUpdateDefaultsToGood(ma, idx, newEval) ==
    IF idx >= 0
    THEN Put(ma, idx, [Get(ma, idx) EXCEPT !.post = Some(newEval),
                                           !.classification = "good"])
    ELSE ma

\* worker.onmessage, the updater given to setMoveAnalyses for the displayed move idx
LiveUpdate(ma, idx, newEval) ==
    IF idx >= 0
    THEN LET cur == Get(ma, idx)
             has == cur.pre # None /\ cur.pre[1].cp # None /\ newEval.cp # None
             loss == IF has THEN Some(cur.pre[1].cp[1] + newEval.cp[1]) ELSE None
         IN Put(ma, idx, [cur EXCEPT !.post = Some(newEval),
                                     !.loss = loss,
                                     !.classification =
                                         IF has THEN ClassifyLive(loss[1]) ELSE "unset"])
    ELSE ma

\* handleAnalysisResult(fenIndex, newEval), with the history length its closure holds
handleAnalysisResult(ma, fenIndex, newEval, hlen) ==
    LET n1 == IF fenIndex < hlen
              THEN Put(ma, fenIndex, [Get(ma, fenIndex) EXCEPT !.pre = Some(newEval)])
              ELSE ma
        r  == [Get(n1, fenIndex - 1) EXCEPT !.post = Some(newEval)]
        has == r.pre # None /\ r.pre[1].cp # None /\ newEval.cp # None
    IN IF fenIndex > 0
       THEN Put(n1, fenIndex - 1,
                IF has
                THEN [r EXCEPT !.loss = Some(r.pre[1].cp[1] + newEval.cp[1]),
                               !.classification = ClassifyBatch(r.pre[1].cp[1] + newEval.cp[1])]
                ELSE r)
       ELSE n1

-----------------------------------------------------------------------------
(* The React state seen by a render, and the commit that follows a handler *)

Cur == [fen |-> fen, history |-> history, currentMoveIndex |-> currentMoveIndex,
        evaluation |-> evaluation, isEngineReady |-> isEngineReady,
        moveAnalyses |-> moveAnalyses, analysisQueue |-> analysisQueue,
        isAnalyzing |-> isAnalyzing, playMode |-> playMode, userColor |-> userColor,
        orientation |-> orientation, puzzleState |-> puzzleState]

\* Engine Analysis Trigger effect, dependencies [engine, isEngineReady, fen]
LiveTriggerRuns(m) ==
    (m.isEngineReady # isEngineReady \/ m.fen # fen) /\ m.isEngineReady

\* play-mode search effect, dependencies [playMode, fen, aiColor, engine]
PlayEffectRuns(m) ==
    m.playMode # playMode \/ m.fen # fen \/ m.userColor # userColor

PlayEffectArms(m, g) ==
    m.playMode /\ ~IsGameOver(g) /\ Turn(g) = AiColor(m.userColor)

\* Worker listener effect, dependencies [engine, playMode, aiColor]
ListenerEffectRuns(m) ==
    m.playMode # playMode \/ m.userColor # userColor

Closure(m) == [isAnalyzing |-> m.isAnalyzing, historyLen |-> Len(m.history),
               evaluation |-> m.evaluation]

\* Processor effect, dependencies [analysisQueue, isAnalyzing, engine]
ProcessorRuns(m) ==
    (m.analysisQueue # analysisQueue \/ m.isAnalyzing # isAnalyzing) /\ m.isAnalyzing

\* m: the state after the handler's updates; g, ref: the refs after the handler;
\* timer: the play timer after the handler; srch, snt: the engine's searches and
\* the commands posted by the handler itself.
Commit(m, g, ref, timer, srch, snt) ==
    LET live == LiveTriggerRuns(m)
        proc == ProcessorRuns(m)
        disp == proc /\ m.analysisQueue # << >>
        task == Head(m.analysisQueue)
        srch1 == IF live THEN Append(srch, Search("live", m.fen, -1)) ELSE srch
        snt1  == IF live THEN snt \o LiveCommands(m.fen) ELSE snt
        srch2 == IF disp THEN Append(srch1, Search("batch", task.fen, task.index)) ELSE srch1
        snt2  == IF disp THEN snt1 \o BatchCommands(task.fen) ELSE snt1
    IN /\ Len(srch2) <= MaxSearches
       /\ game' = g
       /\ fen' = m.fen
       /\ history' = m.history
       /\ currentMoveIndex' = m.currentMoveIndex
       /\ evaluation' = m.evaluation
       /\ isEngineReady' = m.isEngineReady
       /\ moveAnalyses' = m.moveAnalyses
       /\ analysisQueue' = m.analysisQueue
       /\ playMode' = m.playMode
       /\ userColor' = m.userColor
       /\ orientation' = m.orientation
       /\ puzzleState' = m.puzzleState
       /\ playTimer' = IF PlayEffectRuns(m) THEN PlayEffectArms(m, g) ELSE timer
       /\ listener' = IF ListenerEffectRuns(m) THEN Closure(m) ELSE listener
       /\ isAnalyzing' = IF proc /\ ~disp THEN FALSE ELSE m.isAnalyzing
       /\ analyzingIndexRef' = IF proc
                               THEN (IF disp THEN Some(task.index) ELSE None)
                               ELSE ref
       /\ searches' = srch2
       /\ sent' = snt2

-----------------------------------------------------------------------------
(* After the component has mounted: the worker exists, 'uci' and the Hash    *)
(* option were posted, the listener wrapped worker.onmessage in the render   *)
(* that followed setEngine(worker).                                          *)

Init ==
    /\ game = StartPos
    /\ fen = StartPos
    /\ history = << >>
    /\ currentMoveIndex = -1
    /\ evaluation = None
    /\ isEngineReady = FALSE
    /\ moveAnalyses = NoAnalyses
    /\ analysisQueue = << >>
    /\ isAnalyzing = FALSE
    /\ analyzingIndexRef = None
    /\ playMode = FALSE
    /\ userColor = "w"
    /\ orientation = "white"
    /\ puzzleState = [currentPuzzle |-> None, index |-> 0, status |-> "idle",
                      moveIndex |-> None, userRating |-> InitialRating]
    /\ replyTimers = << >>
    /\ depths = << >>
    /\ listener = [isAnalyzing |-> FALSE, historyLen |-> 0, evaluation |-> None]
    /\ playTimer = FALSE
    /\ worker = "running"
    /\ searches = << >>
    /\ sent = InitCommands
    /\ events = 0

-----------------------------------------------------------------------------
(* Game logic *)

\* the component is mounted; a step other than the unmount leaves it so
Mounted == worker = "running" /\ worker' = worker

\* a step taken by the user, and one taken by a timer or the engine
UserEvent ==
    /\ Mounted
    /\ events < MaxUserEvents /\ events' = events + 1
    /\ replyTimers' = replyTimers /\ depths' = depths

EngineEvent == Mounted /\ events' = events /\ replyTimers' = replyTimers /\ depths' = depths

\* makeMove(move) for a move that game.move() accepts; ev is the evaluation the
\* calling closure holds.  The record of the new move is replaced as a whole.
makeMove(m, g, ev) ==
    LET g1 == Pos(g.base, g.n + 1)
    IN [m EXCEPT !.fen = g1,
                 !.history = HistoryOf(g1),
                 !.currentMoveIndex = g1.n - 1,
                 !.moveAnalyses = Put(m.moveAnalyses, g1.n - 1,
                                      [EmptyRecord EXCEPT !.pre = ev])]

\* The board calls the onDrop it was created with (ChessboardJS initialises the
\* board once): appMode is 'analysis' and evaluation is null in that closure.
onDrop ==
    /\ ~IsGameOver(game)
    /\ Commit(makeMove(Cur, game, None), Pos(game.base, game.n + 1),
              analyzingIndexRef, playTimer, searches, << >>)
    /\ UserEvent

resetGame ==
    /\ Commit([Cur EXCEPT !.fen = StartPos, !.history = << >>,
                          !.currentMoveIndex = -1, !.evaluation = None],
              StartPos, analyzingIndexRef, playTimer, searches, << >>)
    /\ UserEvent

\* loadFen with a valid FEN (an invalid one is caught and changes nothing)
loadFen ==
    /\ Commit([Cur EXCEPT !.fen = FenPos, !.history = << >>,
                          !.currentMoveIndex = -1, !.evaluation = None],
              FenPos, analyzingIndexRef, playTimer, searches, << >>)
    /\ UserEvent

\* loadPgn with a valid PGN of k moves from the standard position
loadPgn(k) ==
    /\ Commit([Cur EXCEPT !.fen = Pos("std", k), !.history = HistoryOf(Pos("std", k)),
                          !.currentMoveIndex = k - 1],
              Pos("std", k), analyzingIndexRef, playTimer, searches, << >>)
    /\ UserEvent

\* new Chess() / game.reset() followed by game.move(h[i]): chess.js accepts the
\* moves of a game that started from the standard position and throws on the
\* first move of a game that started from the loaded (Black to move) position.
Replays(h, k) == k = 0 \/ h[1].base = "std"

\* The indices the controls can pass to jumpToMove: a click in the move list,
\* previous (disabled when currentMoveIndex < -1), next (disabled at the end)
JumpTargets ==
    (0..(Len(history) - 1))
    \cup (IF currentMoveIndex < -1 THEN {} ELSE {currentMoveIndex - 1})
    \cup (IF currentMoveIndex >= Len(history) - 1 THEN {} ELSE {currentMoveIndex + 1})

jumpToMove(index) ==
    LET k == IF index + 1 < 0 THEN 0
             ELSE IF index + 1 > Len(history) THEN Len(history) ELSE index + 1
    IN /\ IF Replays(history, k)
          THEN Commit([Cur EXCEPT !.fen = Pos("std", k), !.currentMoveIndex = index,
                                  !.evaluation = None],
                      Pos("std", k), analyzingIndexRef, playTimer, searches, << >>)
          ELSE \* game.move throws after game.reset(): no state is set
               Commit(Cur, StartPos, analyzingIndexRef, playTimer, searches, << >>)
       /\ UserEvent

-----------------------------------------------------------------------------
(* Batch analysis *)

\* the fens array of startBatchAnalysis
BatchTasks(h) == [i \in 1..(Len(h) + 1) |-> [index |-> i - 1, fen |-> Pos("std", i - 1)]]

\* The button is rendered when history.length > 0 && !isAnalyzing
startBatchAnalysis ==
    /\ Len(history) > 0
    /\ ~isAnalyzing
    /\ IF Replays(history, Len(history))
       THEN Commit([Cur EXCEPT !.moveAnalyses = NoAnalyses,
                               !.analysisQueue = BatchTasks(history),
                               !.isAnalyzing = TRUE],
                   game, analyzingIndexRef, playTimer, searches, << >>)
       ELSE \* game.move throws after setMoveAnalyses({})
            Commit([Cur EXCEPT !.moveAnalyses = NoAnalyses],
                   game, analyzingIndexRef, playTimer, searches, << >>)
    /\ UserEvent

-----------------------------------------------------------------------------
(* Play mode *)

togglePlayMode ==
    /\ Commit([Cur EXCEPT !.playMode = ~playMode],
              game, analyzingIndexRef, playTimer, searches, << >>)
    /\ UserEvent

\* The colour buttons are rendered in play mode; setUserColor ends with resetGame()
setUserColor(c) ==
    /\ playMode
    /\ Commit([Cur EXCEPT !.userColor = c,
                          !.orientation = IF c = "w" THEN "white" ELSE "black",
                          !.fen = StartPos, !.history = << >>,
                          !.currentMoveIndex = -1, !.evaluation = None],
              StartPos, analyzingIndexRef, playTimer, searches, << >>)
    /\ UserEvent

\* the setTimeout callback of the play-mode search effect
playTimerFires ==
    /\ playTimer
    /\ Commit(Cur, game, analyzingIndexRef, FALSE,
              Append(searches, Search("play", fen, -1)),
              PlayCommands(fen))
    /\ EngineEvent

-----------------------------------------------------------------------------
(* Messages of the engine.  engine.onmessage is the wrapper installed by the  *)
(* Worker listener effect; it ends by calling the handler it wrapped, the     *)
(* worker.onmessage of the engine initialisation.                             *)

MsgUciok == [type |-> "uciok", line |-> [kind |-> "none", value |-> 0]]

MsgInfo(l) == [type |-> "info", line |-> l]

MsgBestMove == [type |-> "bestmove", line |-> [kind |-> "none", value |-> 0]]

\* a line that is not 'uciok' and starts with neither 'info depth' nor 'bestmove':
\* 'id name ...', 'option name ...', 'readyok', 'info string ...'
MsgOther == [type |-> "other", line |-> [kind |-> "none", value |-> 0]]

\* a handler that takes every line that is not uciok or bestmove for an info line
StartsWithAnything(msg) == msg.type \in {"info", "other"}

\* msg.startsWith('info depth'), in the wrapper and in the handler it wraps
StartsWithInfoDepth(msg) == msg.type = "info"

\* the wrapper attributes an evaluation to the batch task in analyzingIndexRef
AttributesToTask(ref) == ref # None

\* 'info depth' line: the wrapper's setEvaluation and handleAnalysisResult, then
\* the wrapped handler's setEvaluation and update of the displayed move's record
AfterInfo(line) ==
    LET newEval == BatchParse(line)
        lp  == LiveParse(line)
        ma1 == IF AttributesToTask(analyzingIndexRef)
               THEN handleAnalysisResult(moveAnalyses, analyzingIndexRef[1], newEval,
                                         listener.historyLen)
               ELSE moveAnalyses
    IN [Cur EXCEPT !.evaluation = IF lp # None THEN lp ELSE Some(newEval),
                   !.moveAnalyses = IF lp # None
                                    THEN LiveUpdate(ma1, currentMoveIndex, lp[1])
                                    ELSE ma1]

\* the wrapper's condition to make the engine's move on the board
AiMoves(msg) ==
    msg.type = "bestmove" /\ playMode /\ Turn(game) = AiColor(userColor)
    /\ ~listener.isAnalyzing

\* a wrapper that removes the first task on any message of the engine, not only on bestmove
AdvancesQueueOnAnyMessage(msg) ==
    listener.isAnalyzing /\ analyzingIndexRef # None

\* the wrapper's condition to remove the first task of the queue
AdvancesQueue(msg) ==
    msg.type = "bestmove" /\ listener.isAnalyzing /\ analyzingIndexRef # None

\* engine.onmessage(msg).  accepted: game.move() accepts the engine's move;
\* srch: the engine's searches once the message is out.
OnMessage(msg, accepted, srch) ==
    LET m0 == IF StartsWithInfoDepth(msg) THEN AfterInfo(msg.line) ELSE Cur
        moves == AiMoves(msg) /\ accepted
        m1 == IF moves THEN makeMove(m0, game, listener.evaluation) ELSE m0
        g1 == IF moves THEN Pos(game.base, game.n + 1) ELSE game
        adv == AdvancesQueue(msg)
        m2 == IF adv /\ analysisQueue # << >>
              THEN [m1 EXCEPT !.analysisQueue = Tail(analysisQueue)]
              ELSE m1
        m3 == IF msg.type = "uciok" THEN [m2 EXCEPT !.isEngineReady = TRUE] ELSE m2
    IN Commit(m3, g1, IF adv THEN None ELSE analyzingIndexRef, playTimer, srch, << >>)

\* the engine answers 'uci' once
engineUciok ==
    /\ ~isEngineReady
    /\ OnMessage(MsgUciok, FALSE, searches)
    /\ EngineEvent

\* the engine reports on the search it is running, the oldest unanswered one
engineInfo(line) ==
    /\ searches # << >>
    /\ OnMessage(MsgInfo(line), FALSE, searches)
    /\ EngineEvent

\* The engine answers its oldest search.  A move found for the game's position
\* is legal; one found for another position with the same side to move may or
\* may not be legal in this one; one found for the other side is not (its
\* piece is not of the side to move); a finished position has no move
\* ('bestmove (none)').
engineBestMove(accepted) ==
    /\ searches # << >>
    /\ LET s == Head(searches)
           canMove == /\ ~IsGameOver(game) /\ ~IsGameOver(s.pos)
                      /\ Turn(s.pos) = Turn(game)
       IN /\ accepted => canMove
          /\ (s.pos = game /\ canMove) => accepted
          /\ (~AiMoves(MsgBestMove)) => (accepted <=> canMove)
    /\ OnMessage(MsgBestMove, accepted, Tail(searches))
    /\ EngineEvent

-----------------------------------------------------------------------------

Next ==
    \/ onDrop
    \/ resetGame
    \/ loadFen
    \/ \E k \in 0..MaxPlies : loadPgn(k)
    \/ \E index \in JumpTargets : jumpToMove(index)
    \/ startBatchAnalysis
    \/ togglePlayMode
    \/ \E c \in {"w", "b"} : setUserColor(c)
    \/ playTimerFires
    \/ engineUciok
    \/ \E line \in InfoLines : engineInfo(line)
    \/ \E accepted \in BOOLEAN : engineBestMove(accepted)

Spec == Init /\ [][Next]_vars

-----------------------------------------------------------------------------
(* Puzzle session.  handlePuzzleMove is taken as called with the state of the *)
(* current render; the timer callback keeps the puzzleMoves, the moveIndex    *)
(* and the makeMove of the call that set it.                                  *)

\* a step taken by the user in a puzzle session, and one taken by a timer
PuzzleEvent == Mounted /\ events < MaxPuzzleEvents /\ events' = events + 1 /\ depths' = depths

TimerEvent == Mounted /\ events' = events /\ depths' = depths

\* a load that keeps the cursor and the status of the previous session
loadPuzzleKeepingSession(m, index) ==
    IF index < 0 \/ index >= NumPuzzles
    THEN m
    ELSE [m EXCEPT !.fen = Puzzle(index).FEN,
                   !.history = << >>,
                   !.currentMoveIndex = -1,
                   !.puzzleState = [m.puzzleState EXCEPT !.currentPuzzle = Some(Puzzle(index)),
                                                         !.index = index]]

\* loadPuzzle(index): the state after its updates (unchanged for an index out of range)
loadPuzzle(m, index) ==
    IF index < 0 \/ index >= NumPuzzles
    THEN m
    ELSE LET puzzle == Puzzle(index)
             turn == Turn(puzzle.FEN)
         IN [m EXCEPT !.fen = puzzle.FEN,
                      !.history = << >>,
                      !.currentMoveIndex = -1,
                      !.evaluation = None,
                      !.moveAnalyses = NoAnalyses,
                      !.orientation = IF turn = "w" THEN "white" ELSE "black",
                      !.userColor = turn,
                      !.puzzleState = [m.puzzleState EXCEPT !.currentPuzzle = Some(puzzle),
                                                            !.index = index,
                                                            !.status = "solving",
                                                            !.moveIndex = Some(0)]]

\* gameRef.current after loadPuzzle(index)
LoadedGame(index) ==
    IF index < 0 \/ index >= NumPuzzles THEN game ELSE Puzzle(index).FEN

\* the Puzzles button: setAppMode('puzzle'); setPlayMode(false); loadPuzzle(puzzleState.index)
puzzlesButton ==
    /\ Commit(loadPuzzle([Cur EXCEPT !.playMode = FALSE], puzzleState.index),
              LoadedGame(puzzleState.index), analyzingIndexRef, playTimer, searches, << >>)
    /\ replyTimers' = replyTimers
    /\ PuzzleEvent

\* the Next Puzzle button, rendered when the session is solved
nextPuzzle ==
    /\ puzzleState.status = "solved"
    /\ Commit(loadPuzzle(Cur, puzzleState.index + 1),
              LoadedGame(puzzleState.index + 1), analyzingIndexRef, playTimer, searches, << >>)
    /\ replyTimers' = replyTimers
    /\ PuzzleEvent

\* the Retry button, rendered when the session is failed
retryPuzzle ==
    /\ puzzleState.status = "failed"
    /\ Commit(loadPuzzle(Cur, puzzleState.index),
              LoadedGame(puzzleState.index), analyzingIndexRef, playTimer, searches, << >>)
    /\ replyTimers' = replyTimers
    /\ PuzzleEvent

\* handlePuzzleMove gets past its guard and finds an expected token
Compares(st) ==
    /\ st.status = "solving"
    /\ st.currentPuzzle # None
    /\ st.moveIndex[1] < Len(st.currentPuzzle[1].Moves)

\* a comparison that accepts the pair of any token of the solution
MatchesAnyToken(st, pair) ==
    Compares(st) /\ pair # OtherPair

\* userMoveUci === expectedMoveStr, or its first four characters
Matches(st, pair) ==
    Compares(st) /\ pair = st.currentPuzzle[1].Moves[st.moveIndex[1] + 1]

\* a handler that reports every move it compares as accepted
ReturnsTrueWhenCompared(st, pair) == Compares(st)

\* the value handlePuzzleMove returns to the board (false = snapback)
handlePuzzleMoveReturns(st, pair) == Matches(st, pair)

\* the pairs a drop can carry
Pairs == IF puzzleState.currentPuzzle = None THEN {OtherPair}
         ELSE Submissions(puzzleState.currentPuzzle[1])

\* handlePuzzleMove(source, target).  legal: game.move() accepts the move.
handlePuzzleMove(pair, legal) ==
    LET st == puzzleState
        puzzleMoves == st.currentPuzzle[1].Moves
        moveIndex == st.moveIndex[1]
        moved == IF legal THEN makeMove(Cur, game, evaluation) ELSE Cur
        g1 == IF legal THEN Pos(game.base, game.n + 1) ELSE game
    IN /\ Expected(pair, game) => legal
       /\ IF ~Compares(st)
          THEN \* returns false at the guard, or throws on the missing token
               /\ Commit(Cur, game, analyzingIndexRef, playTimer, searches, << >>)
               /\ replyTimers' = replyTimers
          ELSE IF Matches(st, pair)
          THEN IF moveIndex + 1 >= Len(puzzleMoves)
               THEN /\ Commit([moved EXCEPT !.puzzleState.status = "solved",
                                            !.puzzleState.userRating = @ + RatingBonus],
                              g1, analyzingIndexRef, playTimer, searches, << >>)
                    /\ replyTimers' = replyTimers
               ELSE /\ Commit([moved EXCEPT !.puzzleState.moveIndex = Some(moveIndex + 1)],
                              g1, analyzingIndexRef, playTimer, searches, << >>)
                    /\ replyTimers' = Append(replyTimers,
                                             [token |-> puzzleMoves[moveIndex + 2],
                                              len |-> Len(puzzleMoves),
                                              evaluation |-> evaluation])
          ELSE /\ Commit([Cur EXCEPT !.puzzleState.status = "failed",
                                     !.puzzleState.userRating = @ - RatingPenalty],
                         game, analyzingIndexRef, playTimer, searches, << >>)
               /\ replyTimers' = replyTimers
       /\ PuzzleEvent

\* the setTimeout callback of handlePuzzleMove: the scripted reply
replyTimerFires(legal) ==
    /\ replyTimers # << >>
    /\ LET t == Head(replyTimers)
           moved == IF legal THEN makeMove(Cur, game, t.evaluation) ELSE Cur
           g1 == IF legal THEN Pos(game.base, game.n + 1) ELSE game
           nextIndex == puzzleState.moveIndex[1] + 1
       IN /\ Expected(t.token, game) => legal
          /\ Commit([moved EXCEPT !.puzzleState =
                         IF nextIndex + 1 >= t.len
                         THEN [puzzleState EXCEPT !.status = "solved",
                                                  !.userRating = @ + RatingBonus,
                                                  !.moveIndex = Some(nextIndex)]
                         ELSE [puzzleState EXCEPT !.moveIndex = Some(nextIndex)]],
                    g1, analyzingIndexRef, playTimer, searches, << >>)
    /\ replyTimers' = Tail(replyTimers)
    /\ TimerEvent

PuzzleNext ==
    \/ puzzlesButton
    \/ nextPuzzle
    \/ retryPuzzle
    \/ \E pair \in Pairs : \E legal \in BOOLEAN : handlePuzzleMove(pair, legal)
    \/ \E legal \in BOOLEAN : replyTimerFires(legal)

PuzzleSpec == Init /\ [][PuzzleNext]_vars

-----------------------------------------------------------------------------
(* Engine reports: a game played on the board and analysed, live and in a    *)
(* batch, by an engine whose info lines carry a depth and a centipawn or a   *)
(* mate score.                                                               *)

\* the depths of the last two lines handled
LastTwo(ds) == IF Len(ds) <= 1 THEN ds ELSE <<ds[Len(ds) - 1], ds[Len(ds)]>>

\* the engine reports on the search it is running with a line of some depth
engineReport(line) ==
    /\ searches # << >>
    /\ OnMessage(MsgInfo(line), FALSE, searches)
    /\ Mounted
    /\ events' = events
    /\ replyTimers' = replyTimers
    /\ depths' = LastTwo(Append(depths, line.depth))

ReportNext ==
    \/ onDrop
    \/ startBatchAnalysis
    \/ togglePlayMode
    \/ playTimerFires
    \/ engineUciok
    \/ \E line \in ReportLines : engineReport(line)
    \/ \E accepted \in BOOLEAN : engineBestMove(accepted)

ReportSpec == Init /\ [][ReportNext]_vars

-----------------------------------------------------------------------------
(* The protocol lines of the engine: a game on the board, analysed live and  *)
(* in a batch, by an engine that also sends lines the handlers do not know.  *)

\* the engine sends a line that is neither uciok nor info depth nor bestmove
engineOther ==
    /\ OnMessage(MsgOther, FALSE, searches)
    /\ EngineEvent

ProtocolNext ==
    \/ onDrop
    \/ startBatchAnalysis
    \/ engineUciok
    \/ \E line \in InfoLines : engineInfo(line)
    \/ \E accepted \in BOOLEAN : engineBestMove(accepted)
    \/ engineOther

ProtocolSpec == Init /\ [][ProtocolNext]_vars

-----------------------------------------------------------------------------
(* An engine that never acknowledges 'uci': the worker may answer a search   *)
(* or stay silent (a script that failed to load posts nothing).  The timer   *)
(* of the play-mode effect fires once it is set.                             *)

UnreadyNext ==
    \/ onDrop
    \/ \E k \in 0..MaxPlies : loadPgn(k)
    \/ startBatchAnalysis
    \/ togglePlayMode
    \/ playTimerFires
    \/ \E line \in InfoLines : engineInfo(line)
    \/ \E accepted \in BOOLEAN : engineBestMove(accepted)

UnreadySpec == Init /\ [][UnreadyNext]_vars /\ WF_vars(playTimerFires)

-----------------------------------------------------------------------------
(* Teardown: the component is unmounted while idle, during a live search or  *)
(* during a batch.                                                           *)

\* The cleanups of the effects: clearTimeout of the play-mode effect, the
\* listener effect restores the wrapped handler, the engine initialisation
\* effect calls worker.terminate().  Nothing is posted; the terminated worker
\* drops its searches.
unmount ==
    /\ worker = "running"
    /\ worker' = "terminated"
    /\ playTimer' = FALSE
    /\ searches' = << >>
    /\ sent' = << >>
    /\ UNCHANGED <<game, fen, history, currentMoveIndex, evaluation, isEngineReady,
                   moveAnalyses, analysisQueue, isAnalyzing, analyzingIndexRef,
                   playMode, userColor, orientation, puzzleState, replyTimers,
                   depths, listener, events>>

TeardownNext ==
    \/ onDrop
    \/ \E k \in 0..MaxPlies : loadPgn(k)
    \/ startBatchAnalysis
    \/ engineUciok
    \/ \E line \in InfoLines : engineInfo(line)
    \/ \E accepted \in BOOLEAN : engineBestMove(accepted)
    \/ unmount

TeardownSpec == Init /\ [][TeardownNext]_vars

-----------------------------------------------------------------------------
(* Play against the engine, analysed live.  The engine's score tells the     *)
(* position it was computed for: two positions never get the same score.     *)

\* the centipawn score the engine reports for position p
ScoreOf(p) == 10 * (p.n + 1)

\* the engine reports the score of the position of its oldest unanswered search
engineScore ==
    /\ searches # << >>
    /\ OnMessage(MsgInfo([kind |-> "cp", value |-> ScoreOf(Head(searches).pos)]),
                 FALSE, searches)
    /\ EngineEvent

PlayNext ==
    \/ onDrop
    \/ togglePlayMode
    \/ playTimerFires
    \/ engineUciok
    \/ engineScore
    \/ \E accepted \in BOOLEAN : engineBestMove(accepted)

PlaySpec == Init /\ [][PlayNext]_vars

-----------------------------------------------------------------------------
(* An engine that answers: every search it was asked for ends with a         *)
(* bestmove, the acknowledgment of 'uci' arrives, and the timer of the       *)
(* play-mode effect fires once it is set.                                    *)

AnsweringNext ==
    \/ onDrop
    \/ \E k \in 0..MaxPlies : loadPgn(k)
    \/ startBatchAnalysis
    \/ togglePlayMode
    \/ playTimerFires
    \/ engineUciok
    \/ \E line \in InfoLines : engineInfo(line)
    \/ \E accepted \in BOOLEAN : engineBestMove(accepted)

AnsweringSpec ==
    /\ Init
    /\ [][AnsweringNext]_vars
    /\ WF_vars(\E accepted \in BOOLEAN : engineBestMove(accepted))
    /\ WF_vars(engineUciok)
    /\ WF_vars(playTimerFires)

-----------------------------------------------------------------------------
(* The board in puzzle mode.  A drop calls the onDrop the board was created  *)
(* with, whatever was rendered since: onDrop above.                          *)

BoardNext ==
    \/ puzzlesButton
    \/ onDrop
    \/ resetGame
    \/ engineUciok
    \/ \E line \in InfoLines : engineInfo(line)
    \/ \E accepted \in BOOLEAN : engineBestMove(accepted)

BoardSpec == Init /\ [][BoardNext]_vars

-----------------------------------------------------------------------------
(* Steps and what they send *)

BestMoveStep == \E accepted \in BOOLEAN : engineBestMove(accepted)

InfoStep(line) == engineInfo(line)

\* the step posts the batch processor's go
BatchGoPosted == \E i \in DOMAIN sent' : sent'[i].by = "batch" /\ sent'[i].cmd = "go depth 10"

\* the step posts the analysis trigger's stop / position / go depth 15
LivePosted == \E i \in DOMAIN sent' : sent'[i].by = "live"

\* the info line carries the score held by evaluation e
Carries(e, line) ==
    \/ line.kind = "cp" /\ e.cp = Some(line.value)
    \/ line.kind = "mate" /\ e.mate = Some(line.value)

ScoredLines == {l \in InfoLines : l.kind # "none"}

TaskIndices == 0..(MaxPlies + 1)

-----------------------------------------------------------------------------
(* C1 *)

\* C1: the go of queue task j = i+1 is posted only in a step that handles a
\* bestmove, and only when task i was the task in flight before that step: no
\* second task is dispatched before a bestmove came in after task i's go.
C1_NextTaskOnlyAfterBestMove ==
    [][\A j \in TaskIndices :
          (j >= 1 /\ BatchGoPosted /\ analyzingIndexRef' = Some(j))
              => (BestMoveStep /\ analyzingIndexRef = Some(j - 1))]_vars

\* task 1 has just been dispatched
C1_Witness ==
    /\ analyzingIndexRef = Some(1)
    /\ \E i \in DOMAIN sent : sent[i].by = "batch" /\ sent[i].cmd = "go depth 10"

-----------------------------------------------------------------------------
(* C2 *)

\* C2: a bestmove that arrives while a batch task is in flight removes that
\* task from the queue, and the next task (if any) is dispatched in the same
\* step, in list order.
C2_BestMoveAdvancesBatch ==
    [][(BestMoveStep /\ isAnalyzing /\ analyzingIndexRef # None /\ analysisQueue # << >>)
          => /\ analysisQueue' = Tail(analysisQueue)
             /\ Tail(analysisQueue) # << >>
                    => (analyzingIndexRef' = Some(analyzingIndexRef[1] + 1) /\ BatchGoPosted)]_vars

-----------------------------------------------------------------------------
(* C3 *)

\* C3: in live mode an info line of a search of a position that is no longer
\* the current one is discarded: it changes neither the retained evaluation
\* nor any MoveRecord.
C3_StaleInfoDiscarded ==
    [][\A line \in InfoLines :
          (InfoStep(line) /\ ~isAnalyzing /\ Head(searches).src = "live"
                          /\ Head(searches).pos # fen)
              => (evaluation' = evaluation /\ moveAnalyses' = moveAnalyses)]_vars

-----------------------------------------------------------------------------
(* C4 *)

\* C4: a task leaves the queue only in the step that handles the bestmove of
\* the search dispatched for that task.
C4_TaskCompletedByOwnBestMove ==
    [][(analysisQueue # << >> /\ analysisQueue' = Tail(analysisQueue))
          => /\ BestMoveStep
             /\ Head(searches) = Search("batch", Head(analysisQueue).fen,
                                        Head(analysisQueue).index)]_vars

-----------------------------------------------------------------------------
(* C5 *)

\* C5: while a batch holds the session (isAnalyzing), a change of the position
\* posts no live-mode command (stop / position fen / go depth 15).
C5_NoLiveCommandDuringBatch ==
    [][(isAnalyzing /\ fen' # fen) => ~LivePosted]_vars

-----------------------------------------------------------------------------
(* C6 *)

\* C6: a scored info line received while batch task i is in flight is stored
\* as the pre-evaluation of move i when i < N and as the post-evaluation of
\* move i-1 when i > 0, N being the index of the last task of the batch.
C6_BatchEvaluationStored ==
    [][\A line \in ScoredLines : \A i \in TaskIndices :
          (InfoStep(line) /\ isAnalyzing /\ analysisQueue # << >>
                          /\ analyzingIndexRef = Some(i))
              => LET N == analysisQueue[Len(analysisQueue)].index
                     ma == moveAnalyses'
                 IN /\ i < N => (i \in DOMAIN ma /\ ma[i].pre # None
                                  /\ Carries(ma[i].pre[1], line))
                    /\ i > 0 => (i - 1 \in DOMAIN ma /\ ma[i - 1].post # None
                                  /\ Carries(ma[i - 1].post[1], line))]_vars

-----------------------------------------------------------------------------
(* C7 *)

\* C7: in the step that completes a batch (the last task K leaves the queue
\* and isAnalyzing returns to false) every MoveRecord 0..K-1 has its
\* post-evaluation, and every MoveRecord 1..K-1 its pre-evaluation as well.
C7_CompletedBatchFillsRecords ==
    [][(isAnalyzing /\ ~isAnalyzing' /\ analysisQueue # << >>)
          => LET K == Head(analysisQueue).index
                 ma == moveAnalyses'
             IN \A i \in 0..(K - 1) :
                   /\ i \in DOMAIN ma
                   /\ ma[i].post # None
                   /\ i > 0 => ma[i].pre # None]_vars

-----------------------------------------------------------------------------
(* C8 *)

\* the position reached after the first k moves of the game in history
PositionAfter(h, k) == IF k = 0 THEN h[1] ELSE Pos(h[k].base, h[k].n + 1)

\* C8: startBatchAnalysis on a game of K plies leaves K+1 tasks in the queue,
\* task i with index i and the position reached after the first i moves.
C8_BatchEnqueuesEveryPosition ==
    [][startBatchAnalysis
          => analysisQueue' = [i \in 1..(Len(history) + 1) |->
                                  [index |-> i - 1, fen |-> PositionAfter(history, i - 1)]]]_vars

-----------------------------------------------------------------------------
(* C9 *)

\* the thresholds of the specification
Bucket(loss) ==
    IF loss <= 50 THEN "good"
    ELSE IF loss <= 150 THEN "inaccuracy"
    ELSE IF loss <= 300 THEN "mistake"
    ELSE "blunder"

\* C9: a MoveRecord that has a classification has a loss, and the
\* classification is the bucket of that loss (a negative loss is good).
C9_ClassificationIsBucketOfLoss ==
    \A i \in DOMAIN moveAnalyses :
        moveAnalyses[i].classification # "unset"
            => /\ moveAnalyses[i].loss # None
               /\ moveAnalyses[i].classification = Bucket(moveAnalyses[i].loss[1])

-----------------------------------------------------------------------------
(* C10 *)

\* C10: a MoveRecord that has a loss has both evaluations, the loss is their
\* sum, and when one is the negation of the other the loss is 0 and the
\* classification good.
C10_LossIsSum ==
    \A i \in DOMAIN moveAnalyses :
        LET r == moveAnalyses[i]
        IN r.loss # None
            => /\ r.pre # None /\ r.post # None
               /\ r.pre[1].cp # None /\ r.post[1].cp # None
               /\ r.loss[1] = r.pre[1].cp[1] + r.post[1].cp[1]
               /\ (r.pre[1].cp[1] = -r.post[1].cp[1])
                      => (r.loss[1] = 0 /\ r.classification = "good")

-----------------------------------------------------------------------------
(* C11 *)

\* C11: in every reachable state a MoveRecord has a classification only if
\* both its pre-evaluation and its post-evaluation are present.
C11_ClassifiedOnlyWithBothEvaluations ==
    \A i \in DOMAIN moveAnalyses :
        moveAnalyses[i].classification # "unset"
            => (moveAnalyses[i].pre # None /\ moveAnalyses[i].post # None)

\* a move has been classified while another record still lacks an evaluation
C11_Witness ==
    /\ \E i \in DOMAIN moveAnalyses : moveAnalyses[i].classification # "unset"
    /\ \E j \in DOMAIN moveAnalyses :
           /\ moveAnalyses[j].classification = "unset"
           /\ (moveAnalyses[j].pre = None \/ moveAnalyses[j].post = None)

-----------------------------------------------------------------------------
(* Puzzle steps *)

LoadStep == puzzlesButton \/ nextPuzzle \/ retryPuzzle

SubmitStep(pair) == \E legal \in BOOLEAN : handlePuzzleMove(pair, legal)

ReplyStep == \E legal \in BOOLEAN : replyTimerFires(legal)

\* the cursor of the session (moveIndex), once a puzzle has been loaded
Cursor(st) == st.moveIndex[1]

SolutionLen(st) == Len(st.currentPuzzle[1].Moves)

-----------------------------------------------------------------------------
(* C12 *)

\* C12: once the session is solved or failed, a step that loads no puzzle (a
\* further submission, a scripted-reply timer) changes neither the status nor
\* the cursor nor the rating.
C12_TerminalUntilLoad ==
    [][(puzzleState.status \in {"solved", "failed"} /\ ~LoadStep)
          => /\ puzzleState'.status = puzzleState.status
             /\ puzzleState'.moveIndex = puzzleState.moveIndex
             /\ puzzleState'.userRating = puzzleState.userRating]_vars

-----------------------------------------------------------------------------
(* C13 *)

\* C13: in every state with a puzzle loaded, 0 <= cursor <= len(solutionTokens).
C13_CursorWithinSolution ==
    puzzleState.currentPuzzle # None
        => (0 <= Cursor(puzzleState) /\ Cursor(puzzleState) <= SolutionLen(puzzleState))

-----------------------------------------------------------------------------
(* C14 *)

\* C14: whenever the session is solved, the cursor equals len(solutionTokens).
C14_SolvedAtEndOfSolution ==
    puzzleState.status = "solved" => Cursor(puzzleState) = SolutionLen(puzzleState)

-----------------------------------------------------------------------------
(* C15 *)

\* a session on the puzzle of index 0, solution [u, r], with i tokens played
\* and nothing else done
TwoTokenSession(i) ==
    /\ puzzleState.currentPuzzle = Some(Puzzle(0))
    /\ puzzleState.status = "solving"
    /\ puzzleState.moveIndex = Some(i)
    /\ game = Pos(PuzzleBases[1], i)

\* C15: for the solution [u, r]: submitting u while solving applies it and
\* leaves the session solving with cursor 1 and the reply scheduled; the reply
\* timer then applies r and leaves the session solved with cursor 2; submitting
\* another pair first leaves cursor 0, the position unchanged and the session
\* solving or failed.
C15_TwoTokenScenario ==
    [][/\ (TwoTokenSession(0) /\ replyTimers = << >> /\ SubmitStep(Token(0, 0)))
           => /\ puzzleState'.status = "solving"
              /\ puzzleState'.moveIndex = Some(1)
              /\ game' = Pos(PuzzleBases[1], 1)
              /\ Len(replyTimers') = 1 /\ replyTimers'[1].token = Token(0, 1)
       /\ (TwoTokenSession(1) /\ Len(replyTimers) = 1 /\ ReplyStep)
           => /\ puzzleState'.status = "solved"
              /\ puzzleState'.moveIndex = Some(2)
              /\ game' = Pos(PuzzleBases[1], 2)
       /\ \A pair \in Submissions(Puzzle(0)) \ {Token(0, 0)} :
             (TwoTokenSession(0) /\ SubmitStep(pair))
                 => /\ puzzleState'.moveIndex = Some(0)
                    /\ puzzleState'.status \in {"solving", "failed"}
                    /\ game' = game]_vars

\* the scenario has run to its end: u submitted, r replied, the session solved
C15_Witness ==
    /\ puzzleState.currentPuzzle = Some(Puzzle(0))
    /\ puzzleState.status = "solved"
    /\ puzzleState.moveIndex = Some(2)
    /\ game = Pos(PuzzleBases[1], 2)
    /\ replyTimers = << >>
    /\ puzzleState.userRating = InitialRating + RatingBonus

-----------------------------------------------------------------------------
(* C16 *)

\* every pair a drop can carry, over all puzzles
AllPairs == UNION {Submissions(Puzzle(i)) : i \in 0..(NumPuzzles - 1)}

\* C16: a submission that does not match solutionTokens[cursor] leaves the
\* cursor and the position unchanged, is reported as rejected (the handler
\* returns false), sets the session to failed and lowers the rating by 10.
C16_MismatchFailsSession ==
    [][\A pair \in AllPairs :
          (Compares(puzzleState) /\ ~Matches(puzzleState, pair) /\ SubmitStep(pair))
              => /\ puzzleState'.moveIndex = puzzleState.moveIndex
                 /\ game' = game /\ fen' = fen /\ history' = history
                 /\ ~handlePuzzleMoveReturns(puzzleState, pair)
                 /\ puzzleState'.status = "failed"
                 /\ puzzleState'.userRating = puzzleState.userRating - RatingPenalty]_vars

\* a first move that did not match: failed at cursor 0 on the start position
C16_Witness ==
    /\ puzzleState.status = "failed"
    /\ puzzleState.moveIndex = Some(0)
    /\ puzzleState.userRating = InitialRating - RatingPenalty
    /\ puzzleState.currentPuzzle # None
    /\ game = puzzleState.currentPuzzle[1].FEN

-----------------------------------------------------------------------------
(* C17 *)

\* the step is loadPuzzle(index), from one of the three buttons that call it
LoadsPuzzle(index) ==
    \/ puzzlesButton /\ puzzleState.index = index
    \/ retryPuzzle /\ puzzleState.index = index
    \/ nextPuzzle /\ puzzleState.index + 1 = index

\* C17: loadPuzzle with a valid index loads that puzzle's position, sets the
\* cursor to 0, the orientation to the side to move and the status to solving,
\* from any previous status, and keeps the rating.
C17_LoadPuzzleStartsSession ==
    [][\A index \in 0..(NumPuzzles - 1) :
          LoadsPuzzle(index)
              => /\ game' = Puzzle(index).FEN
                 /\ fen' = Puzzle(index).FEN
                 /\ puzzleState'.currentPuzzle = Some(Puzzle(index))
                 /\ puzzleState'.index = index
                 /\ puzzleState'.moveIndex = Some(0)
                 /\ puzzleState'.status = "solving"
                 /\ orientation' = (IF Turn(Puzzle(index).FEN) = "w" THEN "white" ELSE "black")
                 /\ puzzleState'.userRating = puzzleState.userRating]_vars

\* the second puzzle (Black to move) loaded after the first one was solved
C17_Witness ==
    /\ puzzleState.index = 1
    /\ puzzleState.status = "solving"
    /\ puzzleState.moveIndex = Some(0)
    /\ game = Puzzle(1).FEN
    /\ orientation = "black"
    /\ puzzleState.userRating = InitialRating + RatingBonus

-----------------------------------------------------------------------------
(* C18 *)

\* C18: the batch processor never posts a finished position (no legal move
\* left: checkmate or stalemate) to the engine.
C18_NoTerminalPositionSent ==
    [][\A i \in DOMAIN sent' :
          (sent'[i].by = "batch" /\ sent'[i].fen # None) => ~IsGameOver(sent'[i].fen[1])]_vars

-----------------------------------------------------------------------------
(* C19 *)

Abs(x) == IF x < 0 THEN -x ELSE x

SameSign(x, y) == (x > 0 /\ y > 0) \/ (x < 0 /\ y < 0)

\* the evaluations a MoveRecord's loss was computed from
Operands(r) == {r.pre[1], r.post[1]}

\* C19: where a loss has been computed from a mate evaluation of distance
\* N >= 1, the number that stood for the mate has a strictly larger magnitude
\* than any centipawn score of the same sign.
C19_MateOutranksCentipawns ==
    \A i \in DOMAIN moveAnalyses :
        LET r == moveAnalyses[i]
        IN (r.loss # None /\ r.pre # None /\ r.post # None)
            => \A e \in Operands(r) :
                  (e.mate # None /\ Abs(e.mate[1]) >= 1)
                      => /\ e.cp # None
                         /\ \A v \in CpValues :
                               SameSign(v, e.mate[1]) => Abs(e.cp[1]) > Abs(v)

-----------------------------------------------------------------------------
(* C20 *)

\* the evaluation an info line reports
Reported(line) ==
    IF line.kind = "cp" THEN [cp |-> Some(line.value), mate |-> None]
    ELSE [cp |-> None, mate |-> Some(line.value)]

\* C20: after an info line that carries a score has been handled, the
\* retained evaluation is the score of that line, whatever its depth and the
\* depths of the lines handled before it.
C20_LastScoreRetained ==
    [][\A line \in ReportLines :
          (line.kind # "none" /\ engineReport(line))
              => evaluation' = Some(Reported(line))]_vars

\* the start position analysed live: a line of depth 1 has been handled after
\* a line of depth 2
C20_Witness ==
    /\ events = 0
    /\ ~isAnalyzing
    /\ searches # << >> /\ Head(searches) = Search("live", StartPos, -1)
    /\ depths = <<2, 1>>
    /\ evaluation # None

-----------------------------------------------------------------------------
\* C21: an engine line that is not uciok and starts with neither 'info depth'
\* nor 'bestmove' changes no state: readiness, evaluation, MoveRecords, batch
\* queue and its task in flight, analysing flag, board, game, play timer and
\* the engine's searches stay as they were, nothing is posted, and the handler
\* completes whenever such a line arrives.
C21_UnknownLineChangesNothing ==
    [][(engineOther =>
            /\ UNCHANGED <<game, fen, history, currentMoveIndex, evaluation,
                           isEngineReady, moveAnalyses, analysisQueue, isAnalyzing,
                           analyzingIndexRef, playMode, userColor, orientation,
                           puzzleState, listener, playTimer, searches>>
            /\ sent' = << >>)
       /\ ENABLED engineOther]_vars

\* an unknown line has arrived after the first task of a batch was sent to an
\* engine that is not ready: nothing was posted by the step, the task is still
\* in flight and its search unanswered
C21_Witness ==
    /\ ~isEngineReady
    /\ sent = << >>
    /\ isAnalyzing
    /\ analyzingIndexRef = Some(0)
    /\ moveAnalyses = NoAnalyses
    /\ evaluation = None
    /\ Len(searches) = 1

-----------------------------------------------------------------------------
\* C22: a step that resets or replaces the game (resetGame, also at the end of
\* setUserColor, loadFen, loadPgn) leaves no MoveRecord: the MoveRecord set
\* after the step is the empty one.
C22_ResetReplacesMoveRecords ==
    [][(\/ resetGame
        \/ loadFen
        \/ \E k \in 0..MaxPlies : loadPgn(k)
        \/ \E c \in {"w", "b"} : setUserColor(c))
       => moveAnalyses' = NoAnalyses]_vars

-----------------------------------------------------------------------------
\* C23: with an engine that never sends uciok, a batch analysis that was
\* requested leaves the analysing state again.
C23_BatchEndsWithoutReadyEngine ==
    (isAnalyzing /\ ~isEngineReady) ~> ~isAnalyzing

-----------------------------------------------------------------------------
\* C24: the teardown of the engine session posts a 'stop' command to the
\* worker in the step that releases it.
C24_StopSentOnTeardown ==
    [][unmount => \E i \in DOMAIN sent' : sent'[i].cmd = "stop"]_vars

-----------------------------------------------------------------------------
\* the evaluation record of a centipawn score
CpEval(v) == [cp |-> Some(v), mate |-> None]

\* C25: when a step makes move i, the pre-evaluation stored in its MoveRecord
\* is empty or the engine's evaluation of the position move i was played in.
C25_PreIsOfPositionBeforeMove ==
    [][Len(history') = Len(history) + 1
       => LET i == Len(history)
          IN moveAnalyses'[i].pre \in {None, Some(CpEval(ScoreOf(Pos("std", i))))}]_vars

-----------------------------------------------------------------------------
\* C26: an engine message handled while batch task i is in flight changes no
\* MoveRecord other than those of index i and i - 1.
C26_BatchEventTouchesTaskRecordsOnly ==
    [][(((\E line \in InfoLines : InfoStep(line)) \/ BestMoveStep)
        /\ isAnalyzing /\ analyzingIndexRef # None)
       => LET i == analyzingIndexRef[1]
          IN \A j \in DOMAIN moveAnalyses' :
                 j \notin {i, i - 1}
                 => j \in DOMAIN moveAnalyses /\ moveAnalyses'[j] = moveAnalyses[j]]_vars

-----------------------------------------------------------------------------
\* C27: a submitted move is compared with a solution token only when the
\* cursor is even, and the scripted reply advances the cursor only from an
\* odd position.
C27_TokensAlternate ==
    [][/\ \A pair \in AllPairs :
              (SubmitStep(pair) /\ Compares(puzzleState))
              => Cursor(puzzleState) % 2 = 0
       /\ ReplyStep => Cursor(puzzleState) % 2 = 1]_vars

-----------------------------------------------------------------------------
\* C28: between two loads the rating changes at most once, by +10 or by -10: a
\* step that loads no puzzle changes the rating only while the session is
\* solving (the change ends the session), and by one bonus or one penalty.
C28_RatingChangesOncePerSession ==
    [][(~LoadStep /\ puzzleState'.userRating # puzzleState.userRating)
       => /\ puzzleState.status = "solving"
          /\ puzzleState'.status \in {"solved", "failed"}
          /\ puzzleState'.userRating \in {puzzleState.userRating + RatingBonus,
                                          puzzleState.userRating - RatingPenalty}]_vars

-----------------------------------------------------------------------------
\* C29: in a session still solving a solution of odd length len >= 3, with the
\* cursor at len - 2, the scripted reply of the token at len - 2 leaves the
\* session solving with the cursor at len - 1 (the last token is the user's).
C29_OddSolutionEndsOnUserMove ==
    [][(/\ ReplyStep
        /\ puzzleState.status = "solving"
        /\ SolutionLen(puzzleState) % 2 = 1
        /\ SolutionLen(puzzleState) >= 3
        /\ Cursor(puzzleState) = SolutionLen(puzzleState) - 2
        /\ Head(replyTimers).token
               = puzzleState.currentPuzzle[1].Moves[SolutionLen(puzzleState) - 1])
       => /\ puzzleState'.status = "solving"
          /\ Cursor(puzzleState') = SolutionLen(puzzleState) - 1]_vars

-----------------------------------------------------------------------------
\* a session just loaded: solving, cursor 0, board at the puzzle's position
FreshSession ==
    /\ puzzleState.status = "solving"
    /\ Cursor(puzzleState) = 0
    /\ fen = puzzleState.currentPuzzle[1].FEN
    /\ game = fen

\* C30: in a session just loaded, a step that is neither a submission nor a
\* load (a scripted-reply timer left over from the previous session) changes
\* neither the cursor, nor the status, nor the rating, nor the board.
C30_StaleTimerHasNoEffect ==
    [][(FreshSession /\ ~LoadStep /\ ~(\E pair \in AllPairs : SubmitStep(pair)))
       => /\ puzzleState' = puzzleState
          /\ fen' = fen
          /\ game' = game
          /\ history' = history]_vars

-----------------------------------------------------------------------------
\* C31: with an engine that answers every go with a bestmove, a batch that was
\* started finishes: the queue becomes empty and the analysing flag returns
\* to false.
C31_BatchFinishes ==
    isAnalyzing ~> (~isAnalyzing /\ analysisQueue = << >>)

-----------------------------------------------------------------------------
\* the record of move i after the live path has handled the line as its
\* post-evaluation, and after the batch path has (the line is the evaluation
\* of task i + 1)
LiveOutcome(i, line) == LiveUpdate(moveAnalyses, i, LiveParse(line)[1])[i]

BatchOutcome(i, line) ==
    handleAnalysisResult(moveAnalyses, i + 1, BatchParse(line), Len(history))[i]

\* C32: when a scored info line arrives for a displayed move whose record has
\* a pre-evaluation, the live path and the batch path, given that record and
\* that line, compute the same loss and the same classification.
C32_LiveAndBatchAgree ==
    [][\A line \in ReportLines :
          (/\ engineReport(line)
           /\ line.kind # "none"
           /\ currentMoveIndex >= 0
           /\ Get(moveAnalyses, currentMoveIndex).pre # None)
          => /\ LiveOutcome(currentMoveIndex, line).loss
                    = BatchOutcome(currentMoveIndex, line).loss
             /\ LiveOutcome(currentMoveIndex, line).classification
                    = BatchOutcome(currentMoveIndex, line).classification]_vars

-----------------------------------------------------------------------------
\* C33: an 'info depth' line that carries neither a centipawn nor a mate score
\* leaves the retained evaluation and every MoveRecord unchanged.
C33_ScorelessLineIgnored ==
    [][\A line \in InfoLines :
          (InfoStep(line) /\ line.kind = "none")
              => (evaluation' = evaluation /\ moveAnalyses' = moveAnalyses)]_vars

-----------------------------------------------------------------------------
\* the commands that ask the engine for a search
SearchCommands == {"position fen", "go depth 15", "go depth 10"}

\* C34: as long as uciok has not been received, no step has posted a position
\* or a go command, on behalf of live analysis, batch analysis or play mode.
C34_NoSearchBeforeUciok ==
    ~isEngineReady => \A i \in DOMAIN sent : sent[i].cmd \notin SearchCommands

-----------------------------------------------------------------------------
\* C35: a bestmove makes a move on the board only if it answers a search of
\* the game's current position that is not a batch-analysis search.
C35_AiMoveAnswersCurrentPosition ==
    [][(BestMoveStep /\ Len(history') = Len(history) + 1)
       => /\ Head(searches).pos = game
          /\ Head(searches).src # "batch"]_vars

-----------------------------------------------------------------------------
\* C38: in every reachable state -1 <= currentMoveIndex <= len(history) - 1.
C38_MoveIndexWithinHistory ==
    -1 <= currentMoveIndex /\ currentMoveIndex <= Len(history) - 1

-----------------------------------------------------------------------------
\* the move a solution token stands for
ExpectedMove(t) == [coords |-> t, piece |-> PromotionLetter(t)]

\* C36: when a submitted pair matches the expected token and the move is made,
\* the move made on the board is the token's move, promotion piece included;
\* and so is the move the scripted reply makes for its token.
C36_AppliedMoveIsExpectedToken ==
    [][/\ \A pair \in AllPairs :
              (SubmitStep(pair) /\ Matches(puzzleState, pair) /\ game' # game)
              => Applied(UserMoveObject(pair))
                     = ExpectedMove(puzzleState.currentPuzzle[1].Moves[Cursor(puzzleState) + 1])
       /\ (ReplyStep /\ game' # game)
              => Applied(ReplyMoveObject(Head(replyTimers).token))
                     = ExpectedMove(Head(replyTimers).token)]_vars

-----------------------------------------------------------------------------
\* C37: a drop made while a puzzle session is being solved is handled by
\* handlePuzzleMove with the current state: the step is a step of
\* handlePuzzleMove for some coordinate pair.
C37_DropInPuzzleModeIsMatched ==
    [][(onDrop /\ puzzleState.status = "solving")
       => \E pair \in AllPairs : SubmitStep(pair)]_vars

-----------------------------------------------------------------------------
\* the live trigger's three commands occur in sent, next to each other and in
\* this order, for position p
PostedInOrder(snt, p) ==
    \E i \in 1..(Len(snt) - 2) :
        /\ snt[i].cmd = "stop"
        /\ snt[i + 1].cmd = "position fen" /\ snt[i + 1].fen = Some(p)
        /\ snt[i + 2].cmd = "go depth 15"

\* C39: a step that changes the position while the engine is ready posts
\* stop, position fen <new position>, go depth 15, in this order.
C39_StopPositionGoInOrder ==
    [][(isEngineReady /\ fen' # fen) => PostedInOrder(sent', fen')]_vars

\* the position changed by a move while the engine was ready, and the three
\* commands of that step are the ones last posted
C39_Witness ==
    /\ isEngineReady
    /\ Len(history) > 0
    /\ fen = Pos("std", Len(history))
    /\ sent = LiveCommands(fen)
    /\ Len(searches) = 2
    /\ searches[1].src = "live" /\ searches[1].pos # fen
    /\ searches[2] = Search("live", fen, -1)

-----------------------------------------------------------------------------
\* the progress shown while a batch runs, in percent (before rounding, times
\* history.length + 1, to stay within the integers): 1 - queue / (len + 1)
ProgressTimesTotal(m) == 100 * ((Len(m.history) + 1) - Len(m.analysisQueue))

\* C40: while a batch runs the progress lies in [0, 1], it does not decrease
\* from one step to the next, and it is 1 only when no task is left.
C40_ProgressIsCompletedOverTotal ==
    [][(isAnalyzing /\ isAnalyzing')
       => /\ 0 <= ProgressTimesTotal(Cur)'
          /\ ProgressTimesTotal(Cur)' <= 100 * (Len(history') + 1)
          /\ ProgressTimesTotal(Cur) * (Len(history') + 1)
                 <= ProgressTimesTotal(Cur)' * (Len(history) + 1)
          /\ (ProgressTimesTotal(Cur)' = 100 * (Len(history') + 1))
                 => analysisQueue' = << >>]_vars

====
